---- MODULE Spec2Model ----
(***************************************************************************)
(* The user-management service of src/main.py: the in-memory list users_db *)
(* and the JSON file users_data.json, with the handlers that read and      *)
(* mutate them.                                                            *)
(*                                                                         *)
(* Strings are sequences of one-character strings, so that equality is the *)
(* case-sensitive equality of Python's ==.  Python's None is the value     *)
(* None below, which is no string over any alphabet.                       *)
(***************************************************************************)
EXTENDS Integers, Sequences, FiniteSets, TLC

VARIABLES
    users_db,    \* main.py:57  the module-level list of User
    file,        \* the content of DATA_FILE (main.py:28)
    request,     \* the request being served: operation, path id, body
    response,    \* the answer of the last handler: status, detail, user
    max_issued,  \* history: the greatest id a create of this run assigned
    proc,        \* the interleaved create requests (threads of the pool)
    backups      \* the directory backups: timestamp of the name -> content

vars == <<users_db, file, request, response, max_issued, proc, backups>>

----------------------------------------------------------------------------
(* Bounds and input sets *)

\* create is not offered once the next id would exceed MaxId
MaxId == 4

\* the seconds of the clock in which a backup may be taken
MaxBackups == 2

None == <<"None">>

Usernames == { <<"a">>, <<"A">>, <<"b">> }

\* email is a plain str: nothing asks for exactly one "@"
Emails == { <<"a", "@", "x">>, <<"A", "@", "x">>, <<"b", "@", "a", "@", "y">> }

\* (full_name, phone, is_active): the defaults of UserCreate and two others
Profiles ==
    { [full_name |-> None, phone |-> None, is_active |-> TRUE],
      [full_name |-> <<"A", "l">>, phone |-> <<"P", "1">>, is_active |-> FALSE] }

\* the path ids a request may carry: every assignable id, and one beyond
UserIds == 1 .. (MaxId + 1)

----------------------------------------------------------------------------
(* The data model *)

UserCreate ==
    { [username |-> u, email |-> e, full_name |-> p.full_name,
       phone |-> p.phone, is_active |-> p.is_active] :
        u \in Usernames, e \in Emails, p \in Profiles }

User(id, username, email, full_name, phone, is_active) ==
    [id |-> id, username |-> username, email |-> email,
     full_name |-> full_name, phone |-> phone, is_active |-> is_active]

\* placeholders for a request without a body and a response without a user
NoData == [username |-> None, email |-> None, full_name |-> None,
           phone |-> None, is_active |-> TRUE]

NoUser == User(0, None, None, None, None, TRUE)

----------------------------------------------------------------------------
(* JSON values and the persisted file *)

JNull == [t |-> "null"]
JNum(n) == [t |-> "num", n |-> n]
JStr(s) == [t |-> "str", s |-> s]
JBool(b) == [t |-> "bool", b |-> b]

\* None written as the empty string
JOptEmpty(x) == IF x = None THEN JStr(<<>>) ELSE JStr(x)

\* Optional[str] -> JSON
JOpt(x) == IF x = None THEN JNull ELSE JStr(x)

\* user.dict(), as json.dump writes it
user_dict(user) ==
    [id |-> JNum(user.id), username |-> JStr(user.username),
     email |-> JStr(user.email), full_name |-> JOpt(user.full_name),
     phone |-> JOpt(user.phone), is_active |-> JBool(user.is_active)]

\* a key that the dict does not have
JMissing == [t |-> "missing"]

\* JSON -> Optional[str], None being the default of the field
FromJOpt(j) == IF j.t \in {"null", "missing"} THEN None ELSE j.s

\* User(**user_dict) validates: id, username and email are required
valid_user(d) ==
    /\ d.id.t = "num"
    /\ d.username.t = "str"
    /\ d.email.t = "str"
    /\ d.full_name.t \in {"str", "null", "missing"}
    /\ d.phone.t \in {"str", "null", "missing"}
    /\ d.is_active.t \in {"bool", "missing"}

\* User(**user_dict) for a dict that validates
UserFromDict(d) ==
    User(d.id.n, d.username.s, d.email.s, FromJOpt(d.full_name),
         FromJOpt(d.phone),
         IF d.is_active.t = "missing" THEN TRUE ELSE d.is_active.b)

\* the shapes of DATA_FILE: no file, text that is no JSON, the JSON text
\* null, a JSON array of dicts
NoFile == [kind |-> "absent", data |-> <<>>]
Garbage == [kind |-> "garbage", data |-> <<>>]
JsonNull == [kind |-> "json_null", data |-> <<>>]
JsonFile(arr) == [kind |-> "json", data |-> arr]

\* load_users ends in an exception that line 40 does not catch: TypeError
\* from the loop over None, ValidationError from User(**user_dict)
load_raises(f) ==
    \/ f.kind = "json_null"
    \/ f.kind = "json" /\ \E i \in 1 .. Len(f.data) : ~valid_user(f.data[i])

\* what save_users leaves in DATA_FILE
save_users(users) ==
    JsonFile([i \in 1 .. Len(users) |-> user_dict(users[i])])

\* what load_users returns for the file f
load_users(f) ==
    IF f.kind = "json" /\ ~load_raises(f)
    THEN [i \in 1 .. Len(f.data) |-> UserFromDict(f.data[i])]
    ELSE <<>>

----------------------------------------------------------------------------
(* Pure helpers of the handlers *)

Max(S) == CHOOSE m \in S : \A x \in S : x <= m

Ids(users) == { users[i].id : i \in 1 .. Len(users) }

\* get_next_id with the greatest id returned as it is
get_next_id_max(users) ==
    IF Len(users) = 0 THEN 1 ELSE Max(Ids(users))

\* get_next_id that counts the records
get_next_id_len(users) == Len(users) + 1

get_next_id(users) ==
    IF Len(users) = 0 THEN 1 ELSE Max(Ids(users)) + 1

\* the position of the first record with this id, 0 when there is none
FindId(users, user_id) ==
    IF \E i \in 1 .. Len(users) : users[i].id = user_id
    THEN CHOOSE i \in 1 .. Len(users) :
            /\ users[i].id = user_id
            /\ \A j \in 1 .. (i - 1) : users[j].id # user_id
    ELSE 0

\* pop() without its index: the last record goes
RemoveLast(users, i) == SubSeq(users, 1, Len(users) - 1)

\* users_db.pop(i), lines 163
Remove(users, i) ==
    [j \in 1 .. (Len(users) - 1) |-> IF j < i THEN users[j] ELSE users[j + 1]]

----------------------------------------------------------------------------
(* The handlers, as functions of the store they run on *)

Min(S) == CHOOSE m \in S : \A x \in S : m <= x

\* a mapping with no key, such as the dict {} of line 190
EmptyMap == [x \in {} |-> 0]

\* the body of an answer that carries no list and no counters
NoBody == [users |-> <<>>, total |-> 0, skip |-> 0, limit |-> 0,
           active |-> 0, inactive |-> 0, domains |-> EmptyMap,
           backup_file |-> 0, backups |-> <<>>]

\* the answer a handler gives
Answer(status, detail, user) ==
    [status |-> status, detail |-> detail, user |-> user, body |-> NoBody]

\* the loop without its email test
scan_step_username_only(users, i, user_data) ==
    IF i > Len(users) THEN "none"
    ELSE IF users[i].username = user_data.username THEN "username_exists"
    ELSE "continue"

\* the loop without its username test
scan_step_email_only(users, i, user_data) ==
    IF i > Len(users) THEN "none"
    ELSE IF users[i].email = user_data.email THEN "email_exists"
    ELSE "continue"

\* create_user, lines 113-117, one turn of the loop at position i: the list
\* iterator is exhausted, or the record at i has the username (tested
\* first) or the email, or the loop goes on to i + 1
scan_step(users, i, user_data) ==
    IF i > Len(users) THEN "none"
    ELSE IF users[i].username = user_data.username THEN "username_exists"
    ELSE IF users[i].email = user_data.email THEN "email_exists"
    ELSE "continue"

RECURSIVE scan_from(_, _, _)
scan_from(users, i, user_data) ==
    IF scan_step(users, i, user_data) = "continue"
    THEN scan_from(users, i + 1, user_data)
    ELSE scan_step(users, i, user_data)

\* create_user, lines 113-117, the whole loop run without interruption
create_conflict(users, user_data) == scan_from(users, 1, user_data)

\* create_user, lines 120-128
new_user(users, user_data) ==
    User(get_next_id(users), user_data.username, user_data.email,
         user_data.full_name, user_data.phone, user_data.is_active)

\* the inner loop without its email test
update_conflict_username_only(users, user_id, user_data) ==
    IF \E i \in 1 .. Len(users) :
            users[i].id # user_id /\ users[i].username = user_data.username
    THEN "username_taken"
    ELSE "none"

\* the inner loop without its other_user.id != user_id
update_conflict_with_self(users, user_id, user_data) ==
    IF \E i \in 1 .. Len(users) : users[i].username = user_data.username
    THEN "username_taken"
    ELSE IF \E i \in 1 .. Len(users) : users[i].email = user_data.email
    THEN "email_taken"
    ELSE "none"

\* update_user, lines 139-143: the inner loop stops at the first record of
\* another id that has the username (tested first) or the email
update_conflict(users, user_id, user_data) ==
    LET hits == { i \in 1 .. Len(users) :
                    /\ users[i].id # user_id
                    /\ \/ users[i].username = user_data.username
                       \/ users[i].email = user_data.email }
    IN  IF hits = {} THEN "none"
        ELSE IF users[Min(hits)].username = user_data.username
             THEN "username_taken"
             ELSE "email_taken"

\* the replacement built without is_active, which then takes its default
replaced_user_default_active(user_id, user_data) ==
    User(user_id, user_data.username, user_data.email,
         user_data.full_name, user_data.phone, TRUE)

\* update_user, lines 146-153
replaced_user(user_id, user_data) ==
    User(user_id, user_data.username, user_data.email,
         user_data.full_name, user_data.phone, user_data.is_active)

\* get_user, lines 105-108
get_user_answer(users, user_id) ==
    IF FindId(users, user_id) = 0
    THEN Answer(404, "not_found", NoUser)
    ELSE Answer(200, "found", users[FindId(users, user_id)])

----------------------------------------------------------------------------
(* Strings: str.lower(), the operator in, truthiness and list slices *)

UpperCase == <<"A", "B", "C", "D", "E", "F", "G", "H", "I", "J", "K", "L", "M",
               "N", "O", "P", "Q", "R", "S", "T", "U", "V", "W", "X", "Y", "Z">>

LowerCase == <<"a", "b", "c", "d", "e", "f", "g", "h", "i", "j", "k", "l", "m",
               "n", "o", "p", "q", "r", "s", "t", "u", "v", "w", "x", "y", "z">>

LowerChar(c) ==
    IF \E k \in DOMAIN UpperCase : UpperCase[k] = c
    THEN LowerCase[CHOOSE k \in DOMAIN UpperCase : UpperCase[k] = c]
    ELSE c

\* s.lower()
Lower(s) == [k \in 1 .. Len(s) |-> LowerChar(s[k])]

\* t in s
Contains(s, t) ==
    \E k \in 0 .. (Len(s) - Len(t)) : SubSeq(s, k + 1, k + Len(t)) = t

\* bool(x) of an Optional[str]: None and "" are false
Truthy(x) == x # None /\ x # <<>>

\* a bound of a slice of a list of n elements, as Python clamps it
SliceBound(n, k) ==
    IF k < 0 THEN (IF n + k < 0 THEN 0 ELSE n + k)
    ELSE IF k > n THEN n ELSE k

\* seq[start:stop]
PySlice(seq, start, stop) ==
    SubSeq(seq, SliceBound(Len(seq), start) + 1, SliceBound(Len(seq), stop))

----------------------------------------------------------------------------
(* The read handlers, as functions of the store they run on *)

\* get_all_users, lines 87-90; search is already in lower case
list_matches(user, search) ==
    \/ Contains(Lower(user.username), search)
    \/ Contains(Lower(user.email), search)
    \/ Truthy(user.full_name) /\ Contains(Lower(user.full_name), search)
    \/ Truthy(user.phone) /\ Contains(user.phone, search)

\* get_all_users, lines 80-91
list_filter(users, search) ==
    IF ~Truthy(search) THEN users
    ELSE LET lowered == Lower(search)
             Test(user) == list_matches(user, lowered)
         IN  SelectSeq(users, Test)

\* get_all_users reporting the length of the page as the total
get_all_users_answer_page_total(users, skip, limit, search) ==
    LET result == list_filter(users, search) IN
    [Answer(200, "list", NoUser) EXCEPT
        !.body.total = Len(PySlice(result, skip, skip + limit)),
        !.body.skip = skip,
        !.body.limit = limit,
        !.body.users = PySlice(result, skip, skip + limit)]

\* get_all_users, lines 77-101
get_all_users_answer(users, skip, limit, search) ==
    LET result == list_filter(users, search) IN
    [Answer(200, "list", NoUser) EXCEPT
        !.body.total = Len(result),
        !.body.skip = skip,
        !.body.limit = limit,
        !.body.users = PySlice(result, skip, skip + limit)]

\* search_users, lines 173-175
search_matches(user, keyword) ==
    \/ Contains(Lower(user.username), Lower(keyword))
    \/ Contains(Lower(user.email), Lower(keyword))
    \/ Truthy(user.full_name) /\ Contains(Lower(user.full_name), Lower(keyword))

\* search_users, lines 169-177
search_users_answer(users, keyword) ==
    LET Test(user) == search_matches(user, keyword) IN
    [Answer(200, "search", NoUser) EXCEPT !.body.users = SelectSeq(users, Test)]

\* get_active_users, lines 179-181
IsActive(user) == user.is_active

\* datetime.now() at the resolution of the file name, one second
Timestamps == 1 .. MaxBackups

\* the clock does not run backwards: no backup is older than the newest
earliest_now(dir) == IF DOMAIN dir = {} THEN 1 ELSE Max(DOMAIN dir)

\* copy2 failing on every file that load_users would not read
backup_fails_unless_json(f) == f.kind # "json"

\* create_backup, line 213: shutil.copy2 raises when DATA_FILE is not there
backup_fails(f) == f.kind = "absent"

\* create_backup, lines 209-213: the copy, over a backup of the same second
copy2(dir, timestamp, f) ==
    [t \in DOMAIN dir \cup {timestamp} |-> IF t = timestamp THEN f ELSE dir[t]]

\* create_backup, line 231: the newest first
RECURSIVE newest_first(_)
newest_first(stamps) ==
    IF stamps = {} THEN <<>>
    ELSE <<Max(stamps)>> \o newest_first(stamps \ {Max(stamps)})

\* create_backup, lines 215-232, sizes and creation times apart
create_backup_answer(dir, timestamp) ==
    [Answer(200, "backup", NoUser) EXCEPT
        !.body.backup_file = timestamp,
        !.body.total = Cardinality(DOMAIN dir),
        !.body.backups = newest_first(DOMAIN dir)]

\* s.split(sep), sep one character
RECURSIVE Split(_, _)
Split(s, sep) ==
    IF \A k \in DOMAIN s : s[k] # sep THEN <<s>>
    ELSE LET k == Min({ j \in DOMAIN s : s[j] = sep })
         IN  <<SubSeq(s, 1, k - 1)>> \o Split(SubSeq(s, k + 1, Len(s)), sep)

\* the domain taken as the second piece of the split
email_domain_second(email) == Split(email, "@")[2]

\* get_stats, line 192: email.split('@')[-1]
email_domain(email) ==
    LET pieces == Split(email, "@") IN pieces[Len(pieces)]

\* get_stats, lines 190-193: the dict built by the loop over the store
RECURSIVE domain_stats(_)
domain_stats(users) ==
    IF users = <<>> THEN EmptyMap
    ELSE LET before == domain_stats(SubSeq(users, 1, Len(users) - 1))
             domain == email_domain(users[Len(users)].email)
         IN  [d \in DOMAIN before \cup {domain} |->
                 IF d = domain
                 THEN (IF d \in DOMAIN before THEN before[d] ELSE 0) + 1
                 ELSE before[d]]

\* get_stats, lines 183-201, created_date apart
get_stats_answer(users) ==
    LET active_users == Len(SelectSeq(users, IsActive)) IN
    [Answer(200, "stats", NoUser) EXCEPT
        !.body.total = Len(users),
        !.body.active = active_users,
        !.body.inactive = Len(users) - active_users,
        !.body.domains = domain_stats(users)]

get_active_users_answer(users) ==
    [Answer(200, "active", NoUser) EXCEPT !.body.users = SelectSeq(users, IsActive)]

----------------------------------------------------------------------------
(* The HTTP surface: the routes in the order of their decorators.  A path  *)
(* is the sequence of its segments; "{}" in a pattern is a path parameter, *)
(* which takes any one segment.  The first route whose pattern matches the *)
(* path and whose method is the request's serves the request; a parameter  *)
(* annotated int that is no integer is then answered 422 by the framework  *)
(* and no later route is tried.                                            *)

Route(method, pattern, op, int_param) ==
    [method |-> method, pattern |-> pattern, op |-> op, int_param |-> int_param]

Routes ==
    << Route("GET", <<>>, "root", FALSE),                          \* line 59
       Route("GET", <<"users">>, "list", FALSE),                   \* line 77
       Route("GET", <<"users", "{}">>, "get", TRUE),               \* line 103
       Route("POST", <<"users">>, "create", FALSE),                \* line 110
       Route("PUT", <<"users", "{}">>, "update", TRUE),            \* line 134
       Route("DELETE", <<"users", "{}">>, "delete", TRUE),         \* line 159
       Route("GET", <<"users", "search", "{}">>, "search", FALSE), \* line 169
       Route("GET", <<"users", "active">>, "active", FALSE),       \* line 179
       Route("GET", <<"stats">>, "stats", FALSE),                  \* line 183
       Route("POST", <<"backup">>, "backup", FALSE),               \* line 203
       Route("GET", <<"health">>, "health", FALSE) >>              \* line 234

\* the decimal numerals of the ids of a path
Digits == <<"1", "2", "3", "4", "5", "6", "7", "8", "9">>

IsInt(segment) == \E n \in DOMAIN Digits : Digits[n] = segment

ParseInt(segment) == CHOOSE n \in DOMAIN Digits : Digits[n] = segment

PathMatches(pattern, path) ==
    /\ Len(pattern) = Len(path)
    /\ \A k \in 1 .. Len(pattern) : pattern[k] = "{}" \/ pattern[k] = path[k]

\* the routes that match, whatever their place in the table
Matching(method, path) ==
    { k \in DOMAIN Routes :
        Routes[k].method = method /\ PathMatches(Routes[k].pattern, path) }

\* the route served is the first that matches
first_match(method, path) ==
    IF Matching(method, path) = {} THEN 0 ELSE Min(Matching(method, path))

\* the handler that serves the request, "unprocessable" when the path
\* parameter of the route is no int, "no_route" when no route matches
dispatch(method, path) ==
    LET k == first_match(method, path) IN
    IF k = 0 THEN "no_route"
    ELSE IF Routes[k].int_param /\ ~IsInt(path[2]) THEN "unprocessable"
    ELSE Routes[k].op

----------------------------------------------------------------------------
(* The state machine: one request at a time.  A request arrives, its      *)
(* handler runs to completion, the answer goes back to the caller.         *)

Procs == {1, 2}

IdleProc == [pc |-> "idle", user_data |-> NoData, i |-> 0,
             new_user |-> NoUser, status |-> 0]

\* a user dict without the key username
NamelessDict ==
    [user_dict(User(1, <<"a">>, <<"a", "@", "x">>, None, None, TRUE))
        EXCEPT !.username = JMissing]

\* the files the service may find at startup: none, one that is no JSON,
\* JSON that is no array of user dicts, and files an earlier run of the
\* service wrote
InitFiles ==
    { NoFile, Garbage, JsonNull, JsonFile(<<NamelessDict>>),
      save_users(<<>>),
      save_users(<<User(1, <<"a">>, <<"a", "@", "x">>, None, None, TRUE)>>),
      save_users(<<User(2, <<"b">>, <<"b", "@", "a", "@", "y">>, <<"A", "l">>, <<"P", "1">>, FALSE)>>) }

\* the method, path and query parameters of a request that is not one of
\* the four of Requests below
NoQuery == [method |-> "", path |-> <<>>, skip |-> 0, limit |-> 0,
            search |-> None, keyword |-> None]

Req(op, user_id, user_data) ==
    [op |-> op, user_id |-> user_id, user_data |-> user_data,
     query |-> NoQuery]

\* no request is being served
NoRequest == Req("idle", 0, NoData)

\* the handler of the request has not answered yet
NoAnswer == Answer(0, "", NoUser)

\* the requests of the routes of lines 103, 110, 134 and 159
Requests ==
    { Req("create", 0, d) : d \in UserCreate }
        \cup { Req("update", id, d) : id \in UserIds, d \in UserCreate }
        \cup { Req("delete", id, NoData) : id \in UserIds }
        \cup { Req("get", id, NoData) : id \in UserIds }

\* a request given by its method and path, as dispatch routes it
Routed(method, path, skip, limit, search) ==
    [op |-> dispatch(method, path),
     user_id |-> IF dispatch(method, path) \in {"get", "update", "delete"}
                 THEN ParseInt(path[2]) ELSE 0,
     user_data |-> NoData,
     query |-> [method |-> method, path |-> path, skip |-> skip,
                limit |-> limit, search |-> search,
                keyword |-> IF dispatch(method, path) = "search"
                            THEN <<path[3]>> ELSE None]]

\* the values of skip, limit and search of GET /users; FastAPI takes any int
Skips == {-1, 0, 1}

Limits == {-1, 0, 2, 100}

\* one-character path segments, the keywords of GET /users/search/{keyword}
Keywords == {"A", "P", "1"}

Searches == {None} \cup { <<k>> : k \in Keywords }

\* GET /users?skip=&limit=&search=
ListRequests ==
    { Routed("GET", <<"users">>, skip, limit, search) :
        skip \in Skips, limit \in Limits, search \in Searches }

\* GET /users/search/{keyword}
SearchRequests ==
    { Routed("GET", <<"users", "search", k>>, 0, 0, None) : k \in Keywords }

\* POST /backup
BackupRequests == { Routed("POST", <<"backup">>, 0, 0, None) }

\* the creates and deletes that change the file between two backups
BackupMutations ==
    { Req("create", 0, d) :
        d \in { c \in UserCreate : /\ c.phone = None
                                    /\ c.username \in {<<"a">>, <<"b">>}
                                    /\ c.username = <<c.email[1]>> } }
        \cup { Req("delete", id, NoData) : id \in UserIds }

\* GET /stats
StatsRequests == { Routed("GET", <<"stats">>, 0, 0, None) }

\* GET /users/active
ActiveRequests == { Routed("GET", <<"users", "active">>, 0, 0, None) }

\* the import of main.py has ended in the exception of load_users: there is
\* no app and no request is ever served
LoadError == Req("load_error", 0, NoData)

\* main.py:57  users_db = load_users()
Init ==
    /\ file \in InitFiles
    /\ users_db = load_users(file)
    /\ request = IF load_raises(file) THEN LoadError ELSE NoRequest
    /\ response = NoAnswer
    /\ max_issued = 0
    /\ proc = [p \in Procs |-> IdleProc]
    /\ backups = EmptyMap

\* the request r is being served by the handler of op
Serving(op) == request.op = op /\ response = NoAnswer

\* a request arrives and is routed to its handler; a create that would
\* assign an id beyond MaxId is not sent
receive(r) ==
    /\ request = NoRequest
    /\ r.op = "create" =>
          \/ create_conflict(users_db, r.user_data) # "none"
          \/ get_next_id(users_db) <= MaxId
    /\ request' = r
    /\ response' = NoAnswer
    /\ UNCHANGED <<users_db, file, max_issued, proc, backups>>

\* POST /users, lines 110-132
create_user ==
    /\ Serving("create")
    /\ LET user_data == request.user_data IN
       IF create_conflict(users_db, user_data) # "none"
       THEN /\ response' = Answer(400, create_conflict(users_db, user_data), NoUser)
            /\ UNCHANGED <<users_db, file, max_issued>>
       ELSE /\ users_db' = Append(users_db, new_user(users_db, user_data))
            /\ file' = save_users(users_db')
            /\ response' = Answer(200, "created", new_user(users_db, user_data))
            /\ max_issued' = Max({max_issued, new_user(users_db, user_data).id})
    /\ UNCHANGED <<request, proc, backups>>

\* PUT /users/{user_id}, lines 134-157
update_user ==
    /\ Serving("update")
    /\ LET user_id == request.user_id
           user_data == request.user_data
           i == FindId(users_db, user_id)
       IN
       IF i = 0
       THEN /\ response' = Answer(404, "not_found", NoUser)
            /\ UNCHANGED <<users_db, file>>
       ELSE IF update_conflict(users_db, user_id, user_data) # "none"
       THEN /\ response' =
                 Answer(400, update_conflict(users_db, user_id, user_data), NoUser)
            /\ UNCHANGED <<users_db, file>>
       ELSE /\ users_db' = [users_db EXCEPT ![i] = replaced_user(user_id, user_data)]
            /\ file' = save_users(users_db')
            /\ response' = Answer(200, "updated", users_db'[i])
    /\ UNCHANGED <<request, max_issued, proc, backups>>

\* delete_user writing the file before it looks for the record
delete_user_saving_first ==
    /\ Serving("delete")
    /\ LET i == FindId(users_db, request.user_id) IN
       IF i = 0
       THEN /\ response' = Answer(404, "not_found", NoUser)
            /\ file' = save_users(users_db)
            /\ UNCHANGED users_db
       ELSE /\ users_db' = Remove(users_db, i)
            /\ file' = save_users(users_db')
            /\ response' = Answer(200, "deleted", users_db[i])
    /\ UNCHANGED <<request, max_issued, proc, backups>>

\* DELETE /users/{user_id}, lines 159-167
delete_user ==
    /\ Serving("delete")
    /\ LET i == FindId(users_db, request.user_id) IN
       IF i = 0
       THEN /\ response' = Answer(404, "not_found", NoUser)
            /\ UNCHANGED <<users_db, file>>
       ELSE /\ users_db' = Remove(users_db, i)
            /\ file' = save_users(users_db')
            /\ response' = Answer(200, "deleted", users_db[i])
    /\ UNCHANGED <<request, max_issued, proc, backups>>

\* GET /users/{user_id}, lines 103-108
get_user ==
    /\ Serving("get")
    /\ response' = get_user_answer(users_db, request.user_id)
    /\ UNCHANGED <<users_db, file, request, max_issued, proc, backups>>

\* GET /users, lines 77-101
get_all_users ==
    /\ Serving("list")
    /\ response' = get_all_users_answer(users_db, request.query.skip,
                                        request.query.limit, request.query.search)
    /\ UNCHANGED <<users_db, file, request, max_issued, proc, backups>>

\* GET /users/search/{keyword}, lines 169-177
search_users ==
    /\ Serving("search")
    /\ response' = search_users_answer(users_db, request.query.keyword)
    /\ UNCHANGED <<users_db, file, request, max_issued, proc, backups>>

\* GET /stats, lines 183-201
get_stats ==
    /\ Serving("stats")
    /\ response' = get_stats_answer(users_db)
    /\ UNCHANGED <<users_db, file, request, max_issued, proc, backups>>

\* the framework's answer to a path parameter that is no int
validation_error ==
    /\ Serving("unprocessable")
    /\ response' = Answer(422, "unprocessable", NoUser)
    /\ UNCHANGED <<users_db, file, request, max_issued, proc, backups>>

\* POST /backup, lines 203-232; the uncaught FileNotFoundError is a 500
create_backup ==
    /\ Serving("backup")
    /\ IF backup_fails(file)
       THEN /\ response' = Answer(500, "internal_error", NoUser)
            /\ UNCHANGED backups
       ELSE \E timestamp \in Timestamps :
            /\ timestamp >= earliest_now(backups)
            /\ backups' = copy2(backups, timestamp, file)
            /\ response' = create_backup_answer(backups', timestamp)
    /\ UNCHANGED <<users_db, file, request, max_issued, proc>>

\* the answer has gone back to the caller; the next request may arrive
reply ==
    /\ response # NoAnswer
    /\ request' = NoRequest
    /\ response' = NoAnswer
    /\ UNCHANGED <<users_db, file, max_issued, proc, backups>>

Next ==
    \/ \E r \in Requests \cup ListRequests \cup SearchRequests
                    \cup StatsRequests \cup ActiveRequests :
            receive(r)
    \/ create_user
    \/ update_user
    \/ delete_user
    \/ get_user
    \/ get_all_users
    \/ search_users
    \/ get_stats
    \/ validation_error
    \/ reply

Spec == Init /\ [][Next]_vars

\* the service taking backups between creates and deletes
NextBackup ==
    \/ \E r \in BackupMutations \cup BackupRequests : receive(r)
    \/ create_user
    \/ delete_user
    \/ create_backup
    \/ reply

SpecBackup == Init /\ [][NextBackup]_vars

----------------------------------------------------------------------------
(* The state machine of two POST /users requests served by two threads of   *)
(* the pool: create_user takes no lock, so a thread may be preempted        *)
(* between two turns of its loop, before get_next_id, before the append    *)
(* and before save_users.                                                  *)

\* the request arrives: line 111
c_begin(p, user_data) ==
    /\ request = NoRequest
    /\ proc[p].pc = "idle"
    /\ proc' = [proc EXCEPT ![p] =
                    [@ EXCEPT !.pc = "scan", !.user_data = user_data, !.i = 1]]
    /\ UNCHANGED <<users_db, file, request, response, max_issued, backups>>

\* one turn of the loop of lines 113-117 over the shared list
c_scan(p) ==
    /\ proc[p].pc = "scan"
    /\ LET r == scan_step(users_db, proc[p].i, proc[p].user_data) IN
       proc' = [proc EXCEPT ![p] =
                    IF r = "continue" THEN [@ EXCEPT !.i = @ + 1]
                    ELSE IF r = "none" THEN [@ EXCEPT !.pc = "next_id"]
                    ELSE [@ EXCEPT !.pc = "done", !.status = 400]]
    /\ UNCHANGED <<users_db, file, request, response, max_issued, backups>>

\* lines 120-128
c_next_id(p) ==
    /\ proc[p].pc = "next_id"
    /\ proc' = [proc EXCEPT ![p] =
                    [@ EXCEPT !.pc = "append",
                              !.new_user = new_user(users_db, proc[p].user_data)]]
    /\ UNCHANGED <<users_db, file, request, response, max_issued, backups>>

\* line 130
c_append(p) ==
    /\ proc[p].pc = "append"
    /\ users_db' = Append(users_db, proc[p].new_user)
    /\ proc' = [proc EXCEPT ![p] = [@ EXCEPT !.pc = "save"]]
    /\ UNCHANGED <<file, request, response, max_issued, backups>>

\* lines 131-132
c_save(p) ==
    /\ proc[p].pc = "save"
    /\ file' = save_users(users_db)
    /\ proc' = [proc EXCEPT ![p] = [@ EXCEPT !.pc = "done", !.status = 200]]
    /\ UNCHANGED <<users_db, request, response, max_issued, backups>>

NextConc ==
    \/ \E p \in Procs, user_data \in UserCreate : c_begin(p, user_data)
    \/ \E p \in Procs : c_scan(p)
    \/ \E p \in Procs : c_next_id(p)
    \/ \E p \in Procs : c_append(p)
    \/ \E p \in Procs : c_save(p)

SpecConc == Init /\ [][NextConc]_vars

----------------------------------------------------------------------------
(* Vocabulary of the properties *)

Positions(users) == 1 .. Len(users)

UniqueUsernames(users) ==
    \A i, j \in Positions(users) :
        users[i].username = users[j].username => i = j

UniqueEmails(users) ==
    \A i, j \in Positions(users) : users[i].email = users[j].email => i = j

UniqueIds(users) ==
    \A i, j \in Positions(users) : users[i].id = users[j].id => i = j

\* some record of users has the username or the email of user_data
Collides(users, user_data) ==
    \E i \in Positions(users) :
        \/ users[i].username = user_data.username
        \/ users[i].email = user_data.email

\* some record of another id has the username or the email of user_data
CollidesWithOther(users, user_id, user_data) ==
    \E i \in Positions(users) :
        /\ users[i].id # user_id
        /\ \/ users[i].username = user_data.username
           \/ users[i].email = user_data.email

HasId(users, user_id) == \E i \in Positions(users) : users[i].id = user_id

\* the record carries exactly the fields of user_data
SameFields(user, user_data) ==
    /\ user.username = user_data.username
    /\ user.email = user_data.email
    /\ user.full_name = user_data.full_name
    /\ user.phone = user_data.phone
    /\ user.is_active = user_data.is_active

\* users without its k-th element, the others in their order
Without(users, k) == SubSeq(users, 1, k - 1) \o SubSeq(users, k + 1, Len(users))

\* the details of the answers of a successful create, update and delete
Mutations == {"created", "updated", "deleted"}

\* DATA_FILE is a JSON array that reads back as exactly the list in memory
FileHoldsStore == file.kind = "json" /\ load_users(file) = users_db

----------------------------------------------------------------------------
C2_UniqueIds == UniqueIds(users_db)

\* a third record was created beside two others
C2_Witness ==
    /\ response.detail = "created"
    /\ Len(users_db) = 3
    /\ response.user.id = 3

(* C3: a create whose username and email no record uses succeeds; the new  *)
(* id is 1 on an empty store and otherwise one more than the greatest id   *)
(* present just before; the new record is appended last and is the one     *)
(* returned.                                                               *)
C3_CreateAssignsNextId ==
    [][(Serving("create") /\ ~Collides(users_db, request.user_data)) =>
            /\ response'.status = 200
            /\ response'.user.id =
                 (IF users_db = <<>> THEN 1 ELSE Max(Ids(users_db)) + 1)
            /\ SameFields(response'.user, request.user_data)
            /\ users_db' = Append(users_db, response'.user)]_vars

\* a create on a store whose greatest id is not its length
C3_Witness ==
    /\ request.op = "create"
    /\ response.detail = "created"
    /\ Len(users_db) = 2
    /\ users_db[1].id = 2
    /\ response.user = users_db[2]
    /\ response.user.id = 3

(* C4: create fails with Conflict (400) exactly when some record already   *)
(* has the username or the email of the input, and a failed create leaves  *)
(* the number of records as it was.                                        *)
C4_CreateConflict ==
    [][Serving("create") =>
            /\ response'.status = 400 <=> Collides(users_db, request.user_data)
            /\ response'.status = 400 => Len(users_db') = Len(users_db)]_vars

\* a second create with a username in use was refused
C4_Witness ==
    /\ request.op = "create"
    /\ response.status = 400
    /\ \E i \in Positions(users_db) :
          /\ users_db[i].username = request.user_data.username
          /\ users_db[i].email # request.user_data.email

(* C5: after a successful update(id, data), get(id) returns a record with  *)
(* that id whose other fields all equal data; the record keeps its         *)
(* position, and the other records and the number of records are           *)
(* unchanged.                                                              *)
C5_UpdateReplaces ==
    [][(Serving("update") /\ response'.status = 200) =>
        LET id == request.user_id
            d == request.user_data
        IN  /\ get_user_answer(users_db', id).status = 200
            /\ get_user_answer(users_db', id).user.id = id
            /\ SameFields(get_user_answer(users_db', id).user, d)
            /\ Len(users_db') = Len(users_db)
            /\ \A k \in Positions(users_db) :
                   IF users_db[k].id = id
                   THEN users_db'[k].id = id /\ SameFields(users_db'[k], d)
                   ELSE users_db'[k] = users_db[k]]_vars

\* the middle record of three was replaced: its optional fields were set
\* and are now unset
C5_Witness ==
    /\ request.op = "update"
    /\ response.status = 200
    /\ Len(users_db) = 3
    /\ users_db[2].id = request.user_id
    /\ request.user_data.phone = None
    /\ max_issued = 3

(* C6: update answers NotFound (404) when no record has the id, whatever   *)
(* the input collides with; otherwise Conflict (400) exactly when the      *)
(* input's username or email is that of a record of another id; otherwise  *)
(* it succeeds, so an update that keeps the record's own username and      *)
(* email succeeds.                                                         *)
C6_UpdateOutcome ==
    [][Serving("update") =>
            response'.status =
                (IF ~HasId(users_db, request.user_id) THEN 404
                 ELSE IF CollidesWithOther(users_db, request.user_id,
                                           request.user_data) THEN 400
                 ELSE 200)]_vars

\* an update of an absent id was answered NotFound although its input
\* collides with a record
C6_Witness ==
    /\ request.op = "update"
    /\ response.status = 404
    /\ Collides(users_db, request.user_data)

(* C7: after a successful delete(id), get(id) answers NotFound, there is   *)
(* exactly one record less, the record returned is the one removed, and    *)
(* the other records stay in their relative order.                         *)
C7_DeleteRemoves ==
    [][(Serving("delete") /\ response'.status = 200) =>
        LET id == request.user_id
        IN  /\ get_user_answer(users_db', id).status = 404
            /\ Len(users_db') = Len(users_db) - 1
            /\ response'.user.id = id
            /\ \E k \in Positions(users_db) :
                   /\ users_db[k] = response'.user
                   /\ users_db' = Without(users_db, k)]_vars

\* the middle one of three records was deleted
C7_Witness ==
    /\ request.op = "delete"
    /\ response.status = 200
    /\ response.user.id = 2
    /\ Len(users_db) = 2
    /\ users_db[1].id = 1
    /\ users_db[2].id = 3

(* C8: with requests served one at a time, once a create, update or delete *)
(* has succeeded the file holds exactly the list in memory: every          *)
(* successful mutation leaves the file equal to the whole list, and no     *)
(* other step changes the file or the list.                                *)
C8_FileIsSnapshot ==
    [][/\ response'.detail \in Mutations => FileHoldsStore'
       /\ response'.detail \notin Mutations => UNCHANGED <<users_db, file>>
       /\ FileHoldsStore => FileHoldsStore']_vars

\* a delete has rewritten the file with two records, one with optional
\* fields set and one without
C8_Witness ==
    /\ response.detail = "deleted"
    /\ FileHoldsStore
    /\ Len(users_db) = 2
    /\ \E i, j \in Positions(users_db) :
          users_db[i].full_name # None /\ users_db[j].full_name = None

(* C9: when two creates with the same username are interleaved, there is  *)
(* an execution in which both finish their scan before either appends, and *)
(* the store ends with two records of that username.  In the interleaved   *)
(* executions two records share a username only in that way: they are the  *)
(* last two, both threads have appended, and each thread's scan ended at   *)
(* the length the list had before either append.                           *)
C9_DuplicateOnlyByRace ==
    \A m, n \in Positions(users_db) :
        (m < n /\ users_db[m].username = users_db[n].username) =>
            /\ m = Len(users_db) - 1
            /\ n = Len(users_db)
            /\ proc[1].user_data.username = proc[2].user_data.username
            /\ \A p \in Procs :
                   /\ proc[p].pc \in {"save", "done"}
                   /\ proc[p].status # 400
                   /\ proc[p].i = Len(users_db) - 1

\* both creates have answered 200 and the file holds two records of one
\* username
C9_Witness ==
    /\ \A p \in Procs : proc[p].pc = "done" /\ proc[p].status = 200
    /\ proc[1].user_data.username = proc[2].user_data.username
    /\ Len(users_db) >= 2
    /\ users_db[Len(users_db) - 1].username = users_db[Len(users_db)].username
    /\ file = save_users(users_db)

(* C10, as claimed: the id a successful create assigns is strictly greater *)
(* than the id of every earlier successful create.                         *)
C10_IdsNeverReissued ==
    [][(Serving("create") /\ response'.status = 200) =>
            response'.user.id > max_issued]_vars

(* C10, amended: the id a successful create assigns is strictly greater    *)
(* than the id of every record present in the store at the call.           *)
C10_IdAbovePresentIds ==
    [][(Serving("create") /\ response'.status = 200) =>
            \A k \in Positions(users_db) :
                response'.user.id > users_db[k].id]_vars

\* a create has assigned, beside another record, an id below one that an
\* earlier create assigned
C10_Witness ==
    /\ request.op = "create"
    /\ response.status = 200
    /\ Len(users_db) = 2
    /\ response.user.id < max_issued

(* C11, as claimed: GET /users/active is served by the active-only list   *)
(* and answers exactly the records whose is_active is true, in store       *)
(* order; the fetch-one route does not take it.                            *)
C11_ActiveRouteServed ==
    (/\ request.query.method = "GET"
     /\ request.query.path = <<"users", "active">>
     /\ response # NoAnswer)
        => /\ request.op = "active"
           /\ response = get_active_users_answer(users_db)

(* C12, as claimed: search(keyword) returns the same records, in the same *)
(* order, as the whole filtered set of list(search=keyword).               *)
C12_SearchEqualsListFilter ==
    (request.op = "search" /\ response # NoAnswer) =>
        response.body.users =
            get_all_users_answer(users_db, 0, Len(users_db),
                                 request.query.keyword).body.users

\* search is a substring of the field, letter case apart
InFieldIgnoringCase(field, search) ==
    field # None /\ Contains(Lower(field), Lower(search))

\* search is a substring, letter case apart, of one of the four fields
MatchesIgnoringCase(user, search) ==
    \/ InFieldIgnoringCase(user.username, search)
    \/ InFieldIgnoringCase(user.email, search)
    \/ InFieldIgnoringCase(user.full_name, search)
    \/ InFieldIgnoringCase(user.phone, search)

(* C13, as claimed: with search present, list matches a record if and only *)
(* if search is a case-insensitive substring of its username, email,       *)
(* full_name or phone, the four fields alike.                              *)
C13_ListMatchesIgnoringCase ==
    (/\ request.op = "list"
     /\ response # NoAnswer
     /\ request.query.search # None
     /\ request.query.skip = 0
     /\ request.query.limit = 100)
        => \A k \in 1 .. Len(users_db) :
              (\E j \in 1 .. Len(response.body.users) :
                    response.body.users[j] = users_db[k])
                 <=> MatchesIgnoringCase(users_db[k], request.query.search)

\* the list operation has answered the request
ListAnswered == request.op = "list" /\ response # NoAnswer

(* C14: the total of a list answer is the number of records of the        *)
(* filtered set before slicing, the whole store when search is absent,    *)
(* whatever skip and limit are; on an empty store list(skip=0, limit=100) *)
(* answers total 0 and an empty page.                                     *)
C14_TotalCountsFilteredSet ==
    ListAnswered =>
        /\ response.body.total =
              Len(list_filter(users_db, request.query.search))
        /\ request.query.search = None => response.body.total = Len(users_db)
        /\ (users_db = <<>> /\ request.query.skip = 0 /\ request.query.limit = 100)
              => response.body.total = 0 /\ response.body.users = <<>>

\* a search leaves one of several records, and the page is cut shorter still
C14_Witness ==
    /\ ListAnswered
    /\ request.query.search # None
    /\ Len(users_db) >= 2
    /\ response.body.total = 1
    /\ response.body.users = <<>>

\* the positions, counted from 1, of the records at offsets skip .. skip+limit-1
OffsetPositions(seq, skip, limit) ==
    { k \in 1 .. Len(seq) : skip <= k - 1 /\ k - 1 < skip + limit }

\* the records of seq at offsets skip, skip+1, ..., skip+limit-1 that exist
OffsetLimitSlice(seq, skip, limit) ==
    LET at == OffsetPositions(seq, skip, limit) IN
    [j \in 1 .. Cardinality(at) |-> seq[Min(at) + j - 1]]

(* C15, as claimed: for every integer skip and limit the page of a list   *)
(* answer holds the filtered records at offsets skip .. skip+limit-1 that *)
(* exist, in insertion order (hence never a record before offset skip).   *)
C15_PageIsOffsetLimitSlice ==
    ListAnswered =>
        response.body.users =
            OffsetLimitSlice(list_filter(users_db, request.query.search),
                             request.query.skip, request.query.limit)

\* the substring of email after its last "@"
AfterLastAt(email) ==
    LET k == Max({ j \in DOMAIN email : email[j] = "@" })
    IN  SubSeq(email, k + 1, Len(email))

\* the positions of the store whose email has this domain
WithDomain(users, domain) ==
    { k \in Positions(users) : AfterLastAt(users[k].email) = domain }

\* the sum of the values of a map over the keys in S
RECURSIVE SumOver(_, _)
SumOver(map, S) ==
    IF S = {} THEN 0
    ELSE LET d == CHOOSE x \in S : TRUE IN map[d] + SumOver(map, S \ {d})

(* C16: stats reports total = number of records, active = number of       *)
(* records with is_active true (as many as the active-only list holds),   *)
(* inactive = total - active, and a domain map taking the substring after *)
(* the last "@" of each email to the number of records with that domain,  *)
(* so that the domain counts sum to total.                                *)
C16_StatsCountTheStore ==
    (request.op = "stats" /\ response # NoAnswer) =>
        LET body == response.body IN
        /\ body.total = Len(users_db)
        /\ body.active =
              Cardinality({ k \in Positions(users_db) : users_db[k].is_active })
        /\ body.active = Len(get_active_users_answer(users_db).body.users)
        /\ body.inactive = body.total - body.active
        /\ DOMAIN body.domains =
              { AfterLastAt(users_db[k].email) : k \in Positions(users_db) }
        /\ \A d \in DOMAIN body.domains :
              body.domains[d] = Cardinality(WithDomain(users_db, d))
        /\ SumOver(body.domains, DOMAIN body.domains) = body.total

\* two records share a domain, a third has an email with two "@", and the
\* store holds active and inactive records
C16_Witness ==
    /\ request.op = "stats"
    /\ response # NoAnswer
    /\ response.body.total = 3
    /\ response.body.active = 2
    /\ response.body.inactive = 1
    /\ response.body.domains[<<"x">>] = 2
    /\ response.body.domains[<<"y">>] = 1

(* C17, as claimed: load surfaces no error for a bad file; an absent file, *)
(* a file that is no JSON and a file of JSON that is no array of           *)
(* well-formed user objects all give the empty list, and the service runs. *)
C17_LoadSurfacesNoError ==
    /\ request # LoadError
    /\ (request = NoRequest /\ max_issued = 0 /\ file.kind # "json")
          => users_db = <<>>

(* C18: backup fails exactly when the data file does not exist at the     *)
(* time of the call; failing or not, it leaves the list in memory and the *)
(* data file as they were, and on success the new backup holds what the   *)
(* data file holds.                                                       *)
C18_BackupCopiesTheFile ==
    [][(Serving("backup") /\ response' # NoAnswer) =>
          /\ response'.status = 500 <=> file.kind = "absent"
          /\ response'.status \in {200, 500}
          /\ UNCHANGED <<users_db, file>>
          /\ response'.status = 200 =>
                /\ response'.body.backup_file \in DOMAIN backups'
                /\ backups'[response'.body.backup_file] = file']_vars

\* a backup of a file that is no JSON, then one of the file a create wrote
C18_Witness ==
    /\ request.op = "backup"
    /\ response.status = 200
    /\ response.body.total = 2
    /\ backups[1] = Garbage
    /\ backups[response.body.backup_file] = file
    /\ file = save_users(users_db)
    /\ users_db # <<>>

\* the operations that only read the store; GET /users/active is answered
\* by the framework, get_active_users being out of reach
ReadOps == {"list", "get", "search", "active", "stats", "unprocessable"}

(* C19: a create, update or delete that fails with 404 or 400 leaves the  *)
(* list in memory as it was, records and order, and the data file as it   *)
(* was; so do list, get, search, the active-only list and stats.          *)
C19_FailuresAndReadsChangeNothing ==
    [][(/\ response = NoAnswer
        /\ response' # NoAnswer
        /\ \/ request.op \in {"create", "update", "delete"}
                 /\ response'.status \in {400, 404}
           \/ request.op \in ReadOps)
          => UNCHANGED <<users_db, file>>]_vars

\* a delete of an absent id has left alone a data file that is no JSON
C19_Witness ==
    /\ request.op = "delete"
    /\ response.status = 404
    /\ file = Garbage
    /\ users_db = <<>>

(* C20: when two creates with different usernames and different emails    *)
(* are interleaved, there is an execution in which both compute the same  *)
(* next id and the store ends with two records of that id.  In the        *)
(* interleaved executions two records share an id only in that way: they  *)
(* are the last two, both threads have appended, and both computed the id *)
(* the two records carry.                                                 *)
C20_SameIdOnlyByRace ==
    \A m, n \in Positions(users_db) :
        (m < n /\ users_db[m].id = users_db[n].id) =>
            /\ m = Len(users_db) - 1
            /\ n = Len(users_db)
            /\ \A p \in Procs :
                   /\ proc[p].pc \in {"save", "done"}
                   /\ proc[p].status # 400
                   /\ proc[p].new_user.id = users_db[n].id

\* both creates, of different usernames and emails, have answered 200 and
\* the file holds their two records under one id
C20_Witness ==
    /\ \A p \in Procs : proc[p].pc = "done" /\ proc[p].status = 200
    /\ proc[1].user_data.username # proc[2].user_data.username
    /\ proc[1].user_data.email # proc[2].user_data.email
    /\ proc[1].new_user.id = proc[2].new_user.id
    /\ Len(users_db) >= 2
    /\ users_db[Len(users_db) - 1].id = users_db[Len(users_db)].id
    /\ users_db[Len(users_db) - 1].username # users_db[Len(users_db)].username
    /\ users_db[Len(users_db) - 1].email # users_db[Len(users_db)].email
    /\ file = save_users(users_db)

====
